---- MODULE Spec2Model ----
(***************************************************************************)
(* The logging path of minimal-blog: the batching log store (logrepo.Store *)
(* with its background worker), the FanOut handler and the Persister that  *)
(* feeds the store.                                                        *)
(***************************************************************************)
EXTENDS Integers, Sequences, FiniteSets, TLC

(* ------------------------------ bounds --------------------------------- *)
\* flush threshold of the store under check (NewStore's default is 5)
BatchSize == 2
\* how many Insert calls are made in one behaviour
MaxInserts == 3

(* ----------------------------- processes ------------------------------- *)
\* goroutines that log / insert
Callers == {"c1", "c2"}
\* goroutines that run flushBatch: the background worker and the caller of Close
Flushers == {"worker", "closer"}
Procs == Callers \cup Flushers

VARIABLES
  batch,        \* Store.batch.Entries: the pending entries, in append order
  mu,           \* Store.mu: "none" or the process holding it
  pc,           \* position of every goroutine
  arg,          \* the entry each caller passes to the Insert it is in: the
                \* pair <<record, child>> (child 0 for a direct Insert)
  tickPending,  \* a tick waits in the ticker's channel (capacity 1)
  session,      \* Store.session: "open" or "closed"
  executed,     \* history: the ExecuteBatch calls made, in order
  appended,     \* history: the entries appended to a batch, in order
  nCalls,       \* history: the number of Insert calls made
  ticked,       \* history: the ticker has fired at least once
  preClose,     \* history: the entries appended when Close was called
  handlers,     \* FanOut.handlers: the children, in registration order
  hlevel,       \* per caller: the level of the record it logs
  hrec,         \* per caller: the record it logs (0: none yet)
  fanI,         \* per caller: FanOut.Handle's loop index i
  errs,         \* per caller: FanOut.Handle's errs
  invoked,      \* history, per caller: the children whose Handle was called
  outs,         \* history, per caller: how each of those calls ended
  hres,         \* per caller: what its last FanOut.Handle returned
  enRes,        \* per caller: what its last FanOut.Enabled returned
  nRecs,        \* history: the number of logging calls made
  objs,         \* the handler objects (writers and Persisters), by address
  arrs,         \* the backing arrays of the Persisters' groups slices
  hlists,       \* the backing arrays of the FanOuts' handlers slices
  fans,         \* the FanOut values, with how each one was obtained
  born,         \* history: each handler object as it was when created
  rows,         \* history: the values Persister.Handle passed to Insert
  threads,      \* the Thread nodes of the graph database
  posts,        \* the Post nodes, each with the thread it belongs to
  calls,        \* history: the posts.Store calls made, with their results
  nUuid,        \* the number of identifiers uuid.New has handed out
  rheap,        \* the backing arrays of the slog.Records' back slices
  crec,         \* per caller: the slog.Record it passed to FanOut.Handle
  logged,       \* per caller: the shape of the record it logs
  given,        \* history, per caller: the record each invoked child received
  added,        \* history, per caller: what each invoked child added to its record
  objects,      \* the object store: the content kept under each file name
  cache,        \* the Redis cache: the content kept under each file name
  lastFor,      \* history, per name: the content last fetched or inserted for it
  fcalls,       \* history: the CachedService calls made, with their results
  startPc,      \* where Server.Start is
  sigPc,        \* where handleShutdown's goroutine is
  sigPending,   \* a signal waits in shutdownSignal (capacity 1)
  lsErr,        \* what ListenAndServe returned
  sdErr,        \* what server.Shutdown returned
  conns,        \* the connections the server is serving
  closes,       \* history: how many times the shutdown channel was closed
  nSignals      \* history: the number of signals sent to the process

storeVars == <<batch, mu, pc, arg, tickPending, session, executed, appended,
               nCalls, ticked, preClose>>
fanVars == <<handlers, hlevel, hrec, fanI, errs, invoked, outs, hres, enRes, nRecs>>
derVars == <<objs, arrs, hlists, fans, born, rows>>
postVars == <<threads, posts, calls, nUuid>>
recVars == <<rheap, crec, logged, given, added>>
cacheVars == <<objects, cache, lastFor, fcalls>>
srvVars == <<startPc, sigPc, sigPending, lsErr, sdErr, conns, closes, nSignals>>
restVars == <<recVars, cacheVars, srvVars>>
vars == <<batch, mu, pc, arg, tickPending, session, executed, appended,
          nCalls, ticked, preClose, handlers, hlevel, hrec, fanI, errs, invoked,
          outs, hres, enRes, nRecs, objs, arrs, hlists, fans, born, rows,
          threads, posts, calls, nUuid,
         rheap, crec, logged, given, added, objects, cache, lastFor, fcalls,
         startPc, sigPc, sigPending, lsErr, sdErr, conns, closes, nSignals>>

(* --------------------------- logrepo.Store ----------------------------- *)

\* NewStore: an open session, an empty batch, an unbuffered flushCh, and the
\* worker started and waiting in its select.
StoreInit ==
  /\ batch = <<>>
  /\ mu = "none"
  /\ pc = [p \in Procs |-> IF p = "worker" THEN "select" ELSE "idle"]
  /\ arg = [c \in Callers |-> <<0, 0>>]
  /\ tickPending = FALSE
  /\ session = "open"
  /\ executed = <<>>
  /\ appended = <<>>
  /\ nCalls = 0
  /\ ticked = FALSE
  /\ preClose = <<>>

\* where a caller continues when its Insert returns: in Persister.Handle when
\* it logs a record, in the caller itself for a direct Insert
InsertReturn(c) == IF hrec[c] = 0 THEN "idle" ELSE "pret"

\* a caller calls Store.Insert with a fresh entry
InsertCall(c) ==
  /\ pc[c] = "idle"
  /\ nCalls < MaxInserts
  /\ nCalls' = nCalls + 1
  /\ arg' = [arg EXCEPT ![c] = <<nCalls + 1, 0>>]
  /\ pc' = [pc EXCEPT ![c] = "lock"]
  /\ UNCHANGED <<batch, mu, tickPending, session, executed, appended, ticked, preClose>>
  /\ UNCHANGED <<fanVars, derVars, postVars, restVars>>

\* faulty variant: Insert enters without waiting for the lock to be free
InsertLock_NoWait(c) ==
  /\ pc[c] = "lock"
  /\ mu' = c
  /\ pc' = [pc EXCEPT ![c] = "append"]
  /\ UNCHANGED <<batch, arg, tickPending, session, executed, appended, nCalls, ticked, preClose>>
  /\ UNCHANGED <<fanVars, derVars, postVars, restVars>>

\* Insert: c.mu.Lock()
InsertLock(c) ==
  /\ pc[c] = "lock"
  /\ mu = "none"
  /\ mu' = c
  /\ pc' = [pc EXCEPT ![c] = "append"]
  /\ UNCHANGED <<batch, arg, tickPending, session, executed, appended, nCalls, ticked, preClose>>
  /\ UNCHANGED <<fanVars, derVars, postVars, restVars>>

\* faulty variant: the threshold test written with > instead of >=
InsertAppend_OffByOne(c) ==
  /\ pc[c] = "append"
  /\ mu = c
  /\ batch' = Append(batch, arg[c])
  /\ appended' = Append(appended, arg[c])
  /\ pc' = [pc EXCEPT ![c] = IF Len(batch') > BatchSize THEN "send" ELSE "unlock"]
  /\ UNCHANGED <<mu, arg, tickPending, session, executed, nCalls, ticked, preClose>>
  /\ UNCHANGED <<fanVars, derVars, postVars, restVars>>

\* faulty variant: the new entry is put in front of the pending ones
InsertAppend_Prepend(c) ==
  /\ pc[c] = "append"
  /\ mu = c
  /\ batch' = <<arg[c]>> \o batch
  /\ appended' = Append(appended, arg[c])
  /\ pc' = [pc EXCEPT ![c] = IF Len(batch') >= BatchSize THEN "send" ELSE "unlock"]
  /\ UNCHANGED <<mu, arg, tickPending, session, executed, nCalls, ticked, preClose>>
  /\ UNCHANGED <<fanVars, derVars, postVars, restVars>>

\* Insert: c.batch.Query(...) and the threshold test, under the lock
InsertAppend(c) ==
  /\ pc[c] = "append"
  /\ mu = c
  /\ batch' = Append(batch, arg[c])
  /\ appended' = Append(appended, arg[c])
  /\ pc' = [pc EXCEPT ![c] = IF Len(batch') >= BatchSize THEN "send" ELSE "unlock"]
  /\ UNCHANGED <<mu, arg, tickPending, session, executed, nCalls, ticked, preClose>>
  /\ UNCHANGED <<fanVars, derVars, postVars, restVars>>

\* Insert: c.flushCh <- struct{}{} on the unbuffered channel: it completes
\* only together with the worker's receive in its select
InsertSend(c) ==
  /\ pc[c] = "send"
  /\ pc["worker"] = "select"
  /\ pc' = [pc EXCEPT ![c] = "unlock", !["worker"] = "lock"]
  /\ UNCHANGED <<batch, mu, arg, tickPending, session, executed, appended, nCalls, ticked, preClose>>
  /\ UNCHANGED <<fanVars, derVars, postVars, restVars>>

\* Insert: the deferred c.mu.Unlock() and the return
InsertUnlock(c) ==
  /\ pc[c] = "unlock"
  /\ mu = c
  /\ mu' = "none"
  /\ pc' = [pc EXCEPT ![c] = InsertReturn(c)]
  /\ UNCHANGED <<batch, arg, tickPending, session, executed, appended, nCalls, ticked, preClose>>
  /\ UNCHANGED <<fanVars, derVars, postVars, restVars>>

\* the ticker fires: the tick is kept in the channel's one slot (a tick that
\* finds the slot full is dropped, which changes nothing)
TimerFire ==
  /\ ~tickPending
  /\ tickPending' = TRUE
  /\ ticked' = TRUE
  /\ UNCHANGED <<batch, mu, pc, arg, session, executed, appended, nCalls, preClose>>
  /\ UNCHANGED <<fanVars, derVars, postVars, restVars>>

\* faulty variant: the worker takes the tick and does not flush
WorkerTick_NoFlush ==
  /\ pc["worker"] = "select"
  /\ tickPending
  /\ tickPending' = FALSE
  /\ UNCHANGED <<batch, mu, pc, arg, session, executed, appended, nCalls, ticked, preClose>>
  /\ UNCHANGED <<fanVars, derVars, postVars, restVars>>

\* batchWorker: case <-ticker.Chan()
WorkerTick ==
  /\ pc["worker"] = "select"
  /\ tickPending
  /\ tickPending' = FALSE
  /\ pc' = [pc EXCEPT !["worker"] = "lock"]
  /\ UNCHANGED <<batch, mu, arg, session, executed, appended, nCalls, ticked, preClose>>
  /\ UNCHANGED <<fanVars, derVars, postVars, restVars>>

\* where a flusher continues when flushBatch returns
FlushReturn(p) == IF p = "worker" THEN "select" ELSE "sessclose"

\* flushBatch: c.mu.Lock()
FlushLock(p) ==
  /\ pc[p] = "lock"
  /\ mu = "none"
  /\ mu' = p
  /\ pc' = [pc EXCEPT ![p] = "check"]
  /\ UNCHANGED <<batch, arg, tickPending, session, executed, appended, nCalls, ticked, preClose>>
  /\ UNCHANGED <<fanVars, derVars, postVars, restVars>>

\* faulty variant: the batch is snapshotted and the lock released before ExecuteBatch
FlushCheck_ReleaseEarly(p) ==
  /\ pc[p] = "check"
  /\ mu = p
  /\ mu' = "none"
  /\ pc' = [pc EXCEPT ![p] = IF Len(batch) = 0 THEN FlushReturn(p) ELSE "exec"]
  /\ UNCHANGED <<batch, arg, tickPending, session, executed, appended, nCalls, ticked, preClose>>
  /\ UNCHANGED <<fanVars, derVars, postVars, restVars>>

\* faulty variant: the batch is executed without the emptiness test
FlushCheck_NoEmptyTest(p) ==
  /\ pc[p] = "check"
  /\ mu = p
  /\ pc' = [pc EXCEPT ![p] = "exec"]
  /\ UNCHANGED <<batch, mu, arg, tickPending, session, executed, appended, nCalls, ticked, preClose>>
  /\ UNCHANGED <<fanVars, derVars, postVars, restVars>>

\* flushBatch: an empty batch returns at once (releasing the lock), any other
\* goes on to ExecuteBatch
FlushCheck(p) ==
  /\ pc[p] = "check"
  /\ mu = p
  /\ IF Len(batch) = 0
       THEN /\ mu' = "none"
            /\ pc' = [pc EXCEPT ![p] = FlushReturn(p)]
       ELSE /\ mu' = mu
            /\ pc' = [pc EXCEPT ![p] = "exec"]
  /\ UNCHANGED <<batch, arg, tickPending, session, executed, appended, nCalls, ticked, preClose>>
  /\ UNCHANGED <<fanVars, derVars, postVars, restVars>>

\* the outcomes ExecuteBatch can have: on a closed session it can only fail
ExecOutcomes == IF session = "open" THEN {TRUE, FALSE} ELSE {FALSE}

\* flushBatch: c.session.ExecuteBatch(c.batch) returns, with or without error
FlushExecute(p) ==
  /\ pc[p] = "exec"
  /\ mu = p
  /\ \E ok \in ExecOutcomes :
       executed' = Append(executed,
                     [entries |-> batch, ok |-> ok, by |-> p, open |-> session = "open"])
  /\ pc' = [pc EXCEPT ![p] = "clear"]
  /\ UNCHANGED <<batch, mu, arg, tickPending, session, appended, nCalls, ticked, preClose>>
  /\ UNCHANGED <<fanVars, derVars, postVars, restVars>>

\* faulty variant: a batch whose ExecuteBatch failed is kept for the next flush
FlushClear_KeepFailed(p) ==
  /\ pc[p] = "clear"
  /\ mu = p
  /\ batch' = IF executed[Len(executed)].ok THEN <<>> ELSE batch
  /\ mu' = "none"
  /\ pc' = [pc EXCEPT ![p] = FlushReturn(p)]
  /\ UNCHANGED <<arg, tickPending, session, executed, appended, nCalls, ticked, preClose>>
  /\ UNCHANGED <<fanVars, derVars, postVars, restVars>>

\* faulty variant: the batch is not replaced after ExecuteBatch
FlushClear_NoReset(p) ==
  /\ pc[p] = "clear"
  /\ mu = p
  /\ mu' = "none"
  /\ pc' = [pc EXCEPT ![p] = FlushReturn(p)]
  /\ UNCHANGED <<batch, arg, tickPending, session, executed, appended, nCalls, ticked, preClose>>
  /\ UNCHANGED <<fanVars, derVars, postVars, restVars>>

\* flushBatch: c.batch = NewBatch(...), whatever ExecuteBatch returned, then
\* the deferred unlock and the return
FlushClear(p) ==
  /\ pc[p] = "clear"
  /\ mu = p
  /\ batch' = <<>>
  /\ mu' = "none"
  /\ pc' = [pc EXCEPT ![p] = FlushReturn(p)]
  /\ UNCHANGED <<arg, tickPending, session, executed, appended, nCalls, ticked, preClose>>
  /\ UNCHANGED <<fanVars, derVars, postVars, restVars>>

\* faulty variant: Close releases the session without the final flush
CloseCall_NoFlush ==
  /\ pc["closer"] = "idle"
  /\ pc' = [pc EXCEPT !["closer"] = "sessclose"]
  /\ preClose' = appended
  /\ UNCHANGED <<batch, mu, arg, tickPending, session, executed, appended, nCalls, ticked>>
  /\ UNCHANGED <<fanVars, derVars, postVars, restVars>>

\* Close is called: it starts with flushBatch
CloseCall ==
  /\ pc["closer"] = "idle"
  /\ pc' = [pc EXCEPT !["closer"] = "lock"]
  /\ preClose' = appended
  /\ UNCHANGED <<batch, mu, arg, tickPending, session, executed, appended, nCalls, ticked>>
  /\ UNCHANGED <<fanVars, derVars, postVars, restVars>>

\* Close: c.session.Close() after flushBatch has returned
CloseSession ==
  /\ pc["closer"] = "sessclose"
  /\ session' = "closed"
  /\ pc' = [pc EXCEPT !["closer"] = "done"]
  /\ UNCHANGED <<batch, mu, arg, tickPending, executed, appended, nCalls, ticked, preClose>>
  /\ UNCHANGED <<fanVars, derVars, postVars, restVars>>

StoreNext ==
  \/ \E c \in Callers : InsertCall(c)
  \/ \E c \in Callers : InsertLock(c)
  \/ \E c \in Callers : InsertAppend(c)
  \/ \E c \in Callers : InsertSend(c)
  \/ \E c \in Callers : InsertUnlock(c)
  \/ TimerFire
  \/ WorkerTick
  \/ \E p \in Flushers : FlushLock(p)
  \/ \E p \in Flushers : FlushCheck(p)
  \/ \E p \in Flushers : FlushExecute(p)
  \/ \E p \in Flushers : FlushClear(p)
  \/ CloseCall
  \/ CloseSession

(* ------------------------ logging.FanOut, Persister -------------------- *)

\* slog's levels
LevelInfo == 0
LevelWarn == LevelInfo + 4
LevelError == 8
\* the levels records are logged at, and the minimum levels children are
\* configured with
Levels == {LevelInfo, LevelWarn, LevelError}
ChildLevels == {LevelInfo, LevelError}

\* how many children a FanOut has at most, and how many records are logged
MaxChildren == 2
MaxRecords == 1

\* a child is a Persister on the store or a terminal writer (slog's JSON
\* handler on stdout), each with its minimum level
ChildTypes == [kind : {"writer", "persister"}, level : ChildLevels]
HandlerConfigs == UNION {[1..n -> ChildTypes] : n \in 0..MaxChildren}

\* the ways a writer's Handle can end: return nil, return an error, panic
\* with an error value, panic with any other value
WriterOutcomes == {"ok", "err", "panicErr", "panicVal"}

\* the nil error
NilErr == [child |-> 0, how |-> "nil"]
NoResult == [done |-> FALSE, isNil |-> TRUE, errs |-> <<>>]
NoAnswer == [called |-> FALSE, level |-> LevelInfo, res |-> FALSE]

\* NewFanOut(handlers...) around a store made by NewStore; nothing logged yet
FanInit(hs) ==
  /\ handlers = hs
  /\ hlevel = [c \in Callers |-> LevelInfo]
  /\ hrec = [c \in Callers |-> 0]
  /\ fanI = [c \in Callers |-> 0]
  /\ errs = [c \in Callers |-> <<>>]
  /\ invoked = [c \in Callers |-> <<>>]
  /\ outs = [c \in Callers |-> <<>>]
  /\ hres = [c \in Callers |-> NoResult]
  /\ enRes = [c \in Callers |-> NoAnswer]
  /\ nRecs = 0

\* Persister.Enabled, and the Enabled of a writer: level >= minimum level
ChildEnabled(h, level) == level >= h.level

RECURSIVE FanOutEnabledFrom_FirstOnly(_, _, _)
\* faulty variant: the loop returns the first child's answer
FanOutEnabledFrom_FirstOnly(hs, i, level) ==
  IF i > Len(hs) THEN FALSE ELSE ChildEnabled(hs[i], level)

RECURSIVE FanOutEnabledFrom(_, _, _)
\* FanOut.Enabled's loop from child i on: true at the first enabled child
FanOutEnabledFrom(hs, i, level) ==
  IF i > Len(hs) THEN FALSE
  ELSE IF ChildEnabled(hs[i], level) THEN TRUE
  ELSE FanOutEnabledFrom(hs, i + 1, level)

\* FanOut.Enabled
FanOutEnabled(hs, level) == FanOutEnabledFrom(hs, 1, level)

\* faulty variant: try without the recover: a panic leaves the callback's frame
Try_NoRecover(o, i) ==
  CASE o = "ok"       -> [err |-> NilErr, escaped |-> FALSE]
    [] o = "err"      -> [err |-> [child |-> i, how |-> "returned"], escaped |-> FALSE]
    [] o = "panicErr" -> [err |-> NilErr, escaped |-> TRUE]
    [] o = "panicVal" -> [err |-> NilErr, escaped |-> TRUE]

\* try(callback) for child i: the callback's error, or the recovered panic
\* value (itself when it is an error, wrapped by fmt.Errorf otherwise)
Try(o, i) ==
  CASE o = "ok"       -> [err |-> NilErr, escaped |-> FALSE]
    [] o = "err"      -> [err |-> [child |-> i, how |-> "returned"], escaped |-> FALSE]
    [] o = "panicErr" -> [err |-> [child |-> i, how |-> "panic"], escaped |-> FALSE]
    [] o = "panicVal" -> [err |-> [child |-> i, how |-> "unexpected"], escaped |-> FALSE]

\* faulty variant: only the latest error is kept
Accumulate_KeepLast(es, e) == IF e # NilErr THEN <<e>> ELSE es

\* FanOut.Handle: if err != nil { errs = append(errs, err) }
Accumulate(es, e) == IF e # NilErr THEN Append(es, e) ELSE es

\* errors.Join(errs...): nil when no error is left after dropping the nil ones
Join(es) ==
  LET nn == SelectSeq(es, LAMBDA e : e # NilErr)
  IN [done |-> TRUE, isNil |-> nn = <<>>, errs |-> nn]

\* ---- slog.Record: the attributes a record carries, and its copies ----

\* the capacity append gives a slice of strings that has to grow
GrowCap(old, need) == IF need > 2 * old THEN need ELSE 2 * old

\* slog.Record keeps its first nAttrsInline attributes in the array front and
\* the others in the slice back; copying the struct copies front and shares
\* the backing array of back
NAttrsInline == 5

\* the attribute of the "!BUG" message AddAttrs appends when it finds that a
\* copy of the record has written behind the end of back
BugAttr == 99

\* the records a caller logs: one that fits in front, one whose back is full,
\* and one whose back has a spare slot (a record that had attributes added
\* one by one: append grows back beyond what is needed)
RecordShapes ==
  {[n |-> 1, spare |-> 0],
   [n |-> NAttrsInline + 1, spare |-> 0],
   [n |-> NAttrsInline + 1, spare |-> 1]}

\* the attributes of a logged record of n attributes: 1, 2, ..., n
LoggedSeq(n) == [i \in 1..n |-> i]

\* the record of a logging call: the attributes 1..n, the first nAttrsInline
\* of them in front, the others in a new backing array (0: an unused slot)
NewRecord(hp, shape) ==
  IF shape.n <= NAttrsInline
    THEN [heap |-> hp,
          rec |-> [front |-> LoggedSeq(shape.n), arr |-> 0, len |-> 0, cap |-> 0]]
    ELSE LET nb == shape.n - NAttrsInline
         IN [heap |-> Append(hp, [i \in 1..(nb + shape.spare) |->
                                    IF i <= nb THEN NAttrsInline + i ELSE 0]),
             rec |-> [front |-> LoggedSeq(NAttrsInline), arr |-> Len(hp) + 1,
                      len |-> nb, cap |-> nb + shape.spare]]

\* Record.Attrs: the attributes of front, then those of back
RecordAttrs(hp, r) ==
  r.front \o (IF r.arr = 0 THEN <<>> ELSE SubSeq(hp[r.arr], 1, r.len))

\* faulty variant: the record is passed on as it is, sharing back's array
Clone_Shared(r) == r

\* Record.Clone: r.back = slices.Clip(r.back), so that an append to the copy
\* allocates a new array
Clone(r) == [r EXCEPT !.cap = r.len]

\* Record.AddAttrs(a): a goes to front when it has room; otherwise to back,
\* after a check of the slot behind back's end (a non-empty one was written
\* by a copy: back is clipped and the "!BUG" attribute goes first), in place
\* when back has a spare slot and into a grown new array when it has none
AddAttr(hp, r, a) ==
  IF Len(r.front) < NAttrsInline
    THEN [heap |-> hp, rec |-> [r EXCEPT !.front = Append(r.front, a)]]
    ELSE LET aliased == r.cap > r.len /\ hp[r.arr][r.len + 1] # 0
             cap == IF aliased THEN r.len ELSE r.cap
             new == IF aliased THEN <<BugAttr, a>> ELSE <<a>>
             need == r.len + Len(new)
         IN IF need <= cap
              THEN [heap |-> [hp EXCEPT ![r.arr] =
                                [i \in 1..Len(hp[r.arr]) |->
                                   IF i > r.len /\ i <= need
                                     THEN new[i - r.len] ELSE hp[r.arr][i]]],
                    rec |-> [r EXCEPT !.len = need]]
              ELSE LET ncap == GrowCap(cap, need)
                       old == IF r.arr = 0 THEN <<>> ELSE SubSeq(hp[r.arr], 1, r.len)
                   IN [heap |-> Append(hp, [i \in 1..ncap |->
                                              IF i <= r.len THEN old[i]
                                              ELSE IF i <= need THEN new[i - r.len]
                                              ELSE 0]),
                       rec |-> [r EXCEPT !.arr = Len(hp) + 1, !.len = need,
                                         !.cap = ncap]]

\* no record yet
NoRecord == [front |-> <<>>, arr |-> 0, len |-> 0, cap |-> 0]

\* before any logging call: the callers log records of the given shape
RecInit(shape) ==
  /\ rheap = <<>>
  /\ crec = [c \in Callers |-> NoRecord]
  /\ logged = [c \in Callers |-> shape]
  /\ given = [c \in Callers |-> <<>>]
  /\ added = [c \in Callers |-> <<>>]

\* the goroutine that logs
Loggers == {"c1"}

\* a goroutine logs a record at some level through slog.Logger: the logger
\* asks FanOut.Enabled and calls FanOut.Handle only for an enabled level
LogCall(c) ==
  /\ pc[c] = "idle"
  /\ nRecs < MaxRecords
  /\ nRecs' = nRecs + 1
  /\ \E level \in Levels :
       LET en == FanOutEnabled(handlers, level) IN
       /\ enRes' = [enRes EXCEPT ![c] = [called |-> TRUE, level |-> level, res |-> en]]
       /\ IF en
            THEN /\ pc' = [pc EXCEPT ![c] = "fan"]
                 /\ hlevel' = [hlevel EXCEPT ![c] = level]
                 /\ hrec' = [hrec EXCEPT ![c] = nRecs + 1]
                 /\ fanI' = [fanI EXCEPT ![c] = 1]
                 /\ errs' = [errs EXCEPT ![c] = <<>>]
                 /\ invoked' = [invoked EXCEPT ![c] = <<>>]
                 /\ outs' = [outs EXCEPT ![c] = <<>>]
                 /\ hres' = [hres EXCEPT ![c] = NoResult]
                 /\ LET nr == NewRecord(rheap, logged[c]) IN
                      /\ rheap' = nr.heap
                      /\ crec' = [crec EXCEPT ![c] = nr.rec]
                 /\ given' = [given EXCEPT ![c] = <<>>]
                 /\ added' = [added EXCEPT ![c] = <<>>]
            ELSE UNCHANGED <<pc, hlevel, hrec, fanI, errs, invoked, outs, hres,
                             rheap, crec, given, added>>
  /\ UNCHANGED <<handlers, batch, mu, arg, tickPending, session, executed, appended,
                 nCalls, ticked, preClose, logged>>
  /\ UNCHANGED <<derVars, postVars, cacheVars, srvVars>>

\* faulty variant: the loop may pass over a child without asking its Enabled
FanSkip_Any(c) ==
  /\ pc[c] = "fan"
  /\ fanI[c] <= Len(handlers)
  /\ fanI' = [fanI EXCEPT ![c] = fanI[c] + 1]
  /\ UNCHANGED <<handlers, hlevel, hrec, errs, invoked, outs, hres, enRes, nRecs>>
  /\ UNCHANGED <<storeVars, derVars, postVars, restVars>>

\* FanOut.Handle's loop reaches a child that is not enabled for the record
FanSkip(c) ==
  /\ pc[c] = "fan"
  /\ fanI[c] <= Len(handlers)
  /\ ~ChildEnabled(handlers[fanI[c]], hlevel[c])
  /\ fanI' = [fanI EXCEPT ![c] = fanI[c] + 1]
  /\ UNCHANGED <<handlers, hlevel, hrec, errs, invoked, outs, hres, enRes, nRecs>>
  /\ UNCHANGED <<storeVars, derVars, postVars, restVars>>

\* faulty variant: the child's Handle is called without asking its Enabled
FanInvoke_Always(c) ==
  /\ pc[c] = "fan"
  /\ fanI[c] <= Len(handlers)
  /\ invoked' = [invoked EXCEPT ![c] = Append(invoked[c], fanI[c])]
  /\ given' = [given EXCEPT ![c] = Append(given[c], Clone(crec[c]))]
  /\ added' = [added EXCEPT ![c] = Append(added[c], <<>>)]
  /\ IF handlers[fanI[c]].kind = "persister"
       THEN /\ pc' = [pc EXCEPT ![c] = "lock"]
            /\ arg' = [arg EXCEPT ![c] = <<hrec[c], fanI[c]>>]
            /\ nCalls' = nCalls + 1
       ELSE /\ pc' = [pc EXCEPT ![c] = "child"]
            /\ UNCHANGED <<arg, nCalls>>
  /\ UNCHANGED <<handlers, hlevel, hrec, fanI, errs, outs, hres, enRes, nRecs>>
  /\ UNCHANGED <<batch, mu, tickPending, session, executed, appended, ticked, preClose>>
  /\ UNCHANGED <<rheap, crec, logged>>
  /\ UNCHANGED <<derVars, postVars, cacheVars, srvVars>>

\* FanOut.Handle's loop reaches an enabled child and calls its Handle inside
\* try; a Persister's Handle calls Store.Insert with the record
FanInvoke(c) ==
  /\ pc[c] = "fan"
  /\ fanI[c] <= Len(handlers)
  /\ ChildEnabled(handlers[fanI[c]], hlevel[c])
  /\ invoked' = [invoked EXCEPT ![c] = Append(invoked[c], fanI[c])]
  /\ given' = [given EXCEPT ![c] = Append(given[c], Clone(crec[c]))]
  /\ added' = [added EXCEPT ![c] = Append(added[c], <<>>)]
  /\ IF handlers[fanI[c]].kind = "persister"
       THEN /\ pc' = [pc EXCEPT ![c] = "lock"]
            /\ arg' = [arg EXCEPT ![c] = <<hrec[c], fanI[c]>>]
            /\ nCalls' = nCalls + 1
       ELSE /\ pc' = [pc EXCEPT ![c] = "child"]
            /\ UNCHANGED <<arg, nCalls>>
  /\ UNCHANGED <<handlers, hlevel, hrec, fanI, errs, outs, hres, enRes, nRecs>>
  /\ UNCHANGED <<batch, mu, tickPending, session, executed, appended, ticked, preClose>>
  /\ UNCHANGED <<rheap, crec, logged>>
  /\ UNCHANGED <<derVars, postVars, cacheVars, srvVars>>

\* a child's Handle adds an attribute of its own to the record it received
\* (Record.AddAttrs), as a handler that decorates its records does
WriterAdds(c) ==
  LET k == Len(given[c])
      a == 10 + fanI[c]
  IN /\ pc[c] = "child"
     /\ added[c][k] = <<>>
     /\ LET r == AddAttr(rheap, given[c][k], a) IN
          /\ rheap' = r.heap
          /\ given' = [given EXCEPT ![c][k] = r.rec]
     /\ added' = [added EXCEPT ![c][k] = <<a>>]
     /\ UNCHANGED <<crec, logged>>
     /\ UNCHANGED <<storeVars, fanVars, derVars, postVars, cacheVars, srvVars>>

\* faulty variant: FanOut.Handle returns at the first child error
ChildDone_AbortOnError(c, o) ==
  LET r == Try(o, fanI[c]) IN
  /\ outs' = [outs EXCEPT ![c] = Append(outs[c], o)]
  /\ IF r.err # NilErr
       THEN /\ pc' = [pc EXCEPT ![c] = "idle"]
            /\ hres' = [hres EXCEPT ![c] = Join(<<r.err>>)]
            /\ UNCHANGED <<errs, fanI>>
       ELSE /\ pc' = [pc EXCEPT ![c] = "fan"]
            /\ errs' = [errs EXCEPT ![c] = Accumulate(errs[c], r.err)]
            /\ fanI' = [fanI EXCEPT ![c] = fanI[c] + 1]
            /\ UNCHANGED hres
  /\ UNCHANGED <<handlers, hlevel, hrec, invoked, enRes, nRecs>>
  /\ UNCHANGED <<batch, mu, arg, tickPending, session, executed, appended,
                 nCalls, ticked, preClose>>
  /\ UNCHANGED <<derVars, postVars, restVars>>

\* the call of child i's Handle inside try has ended in the way o: the error
\* is accumulated and the loop goes on, or the panic unwinds FanOut.Handle
ChildDone(c, o) ==
  LET r == Try(o, fanI[c]) IN
  /\ outs' = [outs EXCEPT ![c] = Append(outs[c], o)]
  /\ IF r.escaped
       THEN /\ pc' = [pc EXCEPT ![c] = "panicked"]
            /\ UNCHANGED <<errs, fanI>>
       ELSE /\ pc' = [pc EXCEPT ![c] = "fan"]
            /\ errs' = [errs EXCEPT ![c] = Accumulate(errs[c], r.err)]
            /\ fanI' = [fanI EXCEPT ![c] = fanI[c] + 1]
  /\ UNCHANGED <<handlers, hlevel, hrec, invoked, hres, enRes, nRecs>>
  /\ UNCHANGED <<batch, mu, arg, tickPending, session, executed, appended,
                 nCalls, ticked, preClose>>
  /\ UNCHANGED <<derVars, postVars, restVars>>

\* a writer's Handle ends
WriterReturn(c) ==
  /\ pc[c] = "child"
  /\ \E o \in WriterOutcomes : ChildDone(c, o)

\* Persister.Handle returns nil after Store.Insert has returned
PersisterReturn(c) ==
  /\ pc[c] = "pret"
  /\ ChildDone(c, "ok")

\* FanOut.Handle's loop is over: return errors.Join(errs...)
FanReturn(c) ==
  /\ pc[c] = "fan"
  /\ fanI[c] > Len(handlers)
  /\ hres' = [hres EXCEPT ![c] = Join(errs[c])]
  /\ pc' = [pc EXCEPT ![c] = "idle"]
  /\ UNCHANGED <<handlers, hlevel, hrec, fanI, errs, invoked, outs, enRes, nRecs>>
  /\ UNCHANGED <<batch, mu, arg, tickPending, session, executed, appended,
                 nCalls, ticked, preClose>>
  /\ UNCHANGED <<derVars, postVars, restVars>>

(* ------------ handlers derived by WithAttrs and WithGroup -------------- *)

\* bounds: the handler objects ever created, and for the Persister in use
\* the objects derived and the records handled
MaxObjs == 7
MaxDerived == 1
MaxHandles == 2

\* slog.Value: an integer, the zero Value (an untyped nil), or a group
IntVal(n) == [kind |-> "int", n |-> n, g |-> <<>>]
ZeroVal == [kind |-> "any", n |-> 0, g |-> <<>>]
GroupVal(as) == [kind |-> "group", n |-> 0, g |-> as]
\* slog.Attr
MkAttr(k, v) == [key |-> k, val |-> v]

\* the names passed to WithGroup and the attribute lists passed to WithAttrs
GroupNames == {"", "a", "b"}
AddedAttrs == {<<MkAttr("x", IntVal(1))>>}

\* no handler object exists (the store used alone, the FanOut dispatch)
DerNone ==
  /\ objs = <<>>
  /\ arrs = <<>>
  /\ hlists = <<>>
  /\ fans = <<>>
  /\ born = <<>>
  /\ rows = <<>>

\* a handler as its constructor returns it: no attributes, and for the
\* Persister 'groups: []string{}', an empty slice of capacity 0
NewHandler(kind) == [kind |-> kind, attrs |-> <<>>, arr |-> 0, len |-> 0]
NewBorn == [attrs |-> <<>>, groups |-> <<>>, from |-> 0, op |-> "new",
            name |-> "", as |-> <<>>]

\* main: NewFanOut(slog.NewJSONHandler(...), NewPersister(...))
DerInit ==
  /\ objs = <<NewHandler("writer"), NewHandler("persister")>>
  /\ arrs = <<>>
  /\ hlists = << <<1, 2>> >>
  /\ fans = <<[arr |-> 1, kids |-> <<1, 2>>, from |-> 0, op |-> "new",
               name |-> "", as |-> <<>>]>>
  /\ born = <<NewBorn, NewBorn>>
  /\ rows = <<>>

\* the elements of the slice o.arr[0:o.len] in the heap hp of backing arrays
SliceOf(hp, o) == IF o.arr = 0 THEN <<>> ELSE SubSeq(hp[o.arr], 1, o.len)
\* p.groups as the Persister o sees it now
GroupsOf(o) == SliceOf(arrs, o)

\* append(o.groups, name): written into the spare capacity of the backing
\* array when there is some, into a new and larger array otherwise
AppendName(hp, o, name) ==
  IF o.arr # 0 /\ o.len < Len(hp[o.arr])
    THEN [heap |-> [hp EXCEPT ![o.arr][o.len + 1] = name],
          arr |-> o.arr, len |-> o.len + 1]
    ELSE LET cap == GrowCap(IF o.arr = 0 THEN 0 ELSE Len(hp[o.arr]), o.len + 1)
             old == SliceOf(hp, o)
         IN [heap |-> Append(hp, [i \in 1..cap |->
                                    IF i <= o.len THEN old[i]
                                    ELSE IF i = o.len + 1 THEN name ELSE ""]),
             arr |-> Len(hp) + 1, len |-> o.len + 1]

\* the writer's WithGroup: the names are copied into an array of their own
CopyName(hp, o, name) ==
  [heap |-> Append(hp, Append(SliceOf(hp, o), name)),
   arr |-> Len(hp) + 1, len |-> o.len + 1]

RECURSIVE FilterFrom(_, _, _)
\* the elements of s at the positions in keep, from position i on
FilterFrom(s, keep, i) ==
  IF i > Len(s) THEN <<>>
  ELSE (IF i \in keep THEN <<s[i]>> ELSE <<>>) \o FilterFrom(s, keep, i + 1)

\* slogcommon.UniqAttrs: of several attributes with one key the last is kept
UniqAttrs(as) ==
  FilterFrom(as, {i \in DOMAIN as :
                    \A j \in DOMAIN as : j > i => as[j].key # as[i].key}, 1)

RECURSIVE AppendAttrsToGroup(_, _, _)
\* slogcommon.AppendAttrsToGroup(groups, actualAttrs, newAttrs...): the new
\* attributes are nested under the groups, inside the group attribute that
\* is already there or inside a new one
AppendAttrsToGroup(gs, actual, new) ==
  IF gs = <<>> THEN UniqAttrs(actual \o new)
  ELSE LET hit == {i \in DOMAIN actual :
                     actual[i].key = Head(gs) /\ actual[i].val.kind = "group"}
       IN IF hit # {}
            THEN LET i == CHOOSE x \in hit : \A y \in hit : x <= y IN
                 [actual EXCEPT ![i] = MkAttr(Head(gs),
                    GroupVal(AppendAttrsToGroup(Tail(gs), actual[i].val.g, new)))]
            ELSE UniqAttrs(Append(actual, MkAttr(Head(gs),
                    GroupVal(AppendAttrsToGroup(Tail(gs), <<>>, new)))))

\* h.WithAttrs(as) (op "attrs") or h.WithGroup(name) (op "group") on the
\* heap st = [objs, arrs, born]: a new object is allocated, except by
\* WithGroup(""), which returns h itself
Derive(st, h, op, name, as) ==
  LET o == st.objs[h]
      gs == SliceOf(st.arrs, o)
  IN IF op = "attrs"
       THEN LET n == [o EXCEPT !.attrs = AppendAttrsToGroup(gs, o.attrs, as)] IN
            [objs |-> Append(st.objs, n),
             arrs |-> st.arrs,
             born |-> Append(st.born, [attrs |-> n.attrs, groups |-> gs, from |-> h,
                                       op |-> op, name |-> "", as |-> as])]
       ELSE IF name = "" THEN st
       ELSE LET r == IF o.kind = "persister" THEN AppendName(st.arrs, o, name)
                                             ELSE CopyName(st.arrs, o, name)
                n == [o EXCEPT !.arr = r.arr, !.len = r.len]
            IN [objs |-> Append(st.objs, n),
                arrs |-> r.heap,
                born |-> Append(st.born, [attrs |-> o.attrs,
                                          groups |-> Append(gs, name), from |-> h,
                                          op |-> op, name |-> name, as |-> <<>>])]

RECURSIVE DeriveEach(_, _, _, _, _, _)
\* FanOut's loop 'for _, handler := range f.handlers { handler = handler.With... }'
DeriveEach(st, kids, i, op, name, as) ==
  IF i > Len(kids) THEN st
  ELSE DeriveEach(Derive(st, kids[i], op, name, as), kids, i + 1, op, name, as)

\* the heap now
Heap == [objs |-> objs, arrs |-> arrs, born |-> born]

\* p.WithAttrs(as) on the Persister at address h
PersisterWithAttrs(h, as) ==
  /\ objs[h].kind = "persister"
  /\ LET st == Derive(Heap, h, "attrs", "", as) IN
       /\ objs' = st.objs
       /\ arrs' = st.arrs
       /\ born' = st.born
  /\ UNCHANGED <<hlists, fans, rows>>
  /\ UNCHANGED <<storeVars, fanVars, postVars, restVars>>

\* p.WithGroup(name) on the Persister at address h
PersisterWithGroup(h, name) ==
  /\ objs[h].kind = "persister"
  /\ LET st == Derive(Heap, h, "group", name, <<>>) IN
       /\ objs' = st.objs
       /\ arrs' = st.arrs
       /\ born' = st.born
  /\ UNCHANGED <<hlists, fans, rows>>
  /\ UNCHANGED <<storeVars, fanVars, postVars, restVars>>

\* faulty variant: the derived children are stored into the receiver's slice
FanOutWithAttrs_InPlace(f, as) ==
  LET kids == hlists[fans[f].arr]
      st == DeriveEach(Heap, kids, 1, "attrs", "", as)
  IN /\ objs' = st.objs
     /\ arrs' = st.arrs
     /\ born' = st.born
     /\ hlists' = [hlists EXCEPT ![fans[f].arr] =
                     [i \in DOMAIN kids |-> Len(objs) + i]]
     /\ fans' = Append(fans, [arr |-> fans[f].arr, kids |-> hlists'[fans[f].arr],
                              from |-> f, op |-> "attrs", name |-> "", as |-> as])
     /\ UNCHANGED rows
     /\ UNCHANGED <<storeVars, fanVars, postVars, restVars>>

\* f.WithAttrs(as) on the FanOut value f: every child's WithAttrs is called,
\* its result assigned to the loop variable, and f is returned
FanOutWithAttrs(f, as) ==
  LET kids == hlists[fans[f].arr]
      st == DeriveEach(Heap, kids, 1, "attrs", "", as)
  IN /\ objs' = st.objs
     /\ arrs' = st.arrs
     /\ born' = st.born
     /\ fans' = Append(fans, [arr |-> fans[f].arr, kids |-> kids,
                              from |-> f, op |-> "attrs", name |-> "", as |-> as])
     /\ UNCHANGED <<hlists, rows>>
     /\ UNCHANGED <<storeVars, fanVars, postVars, restVars>>

\* f.WithGroup(name) on the FanOut value f: f itself for the empty name;
\* otherwise every child's WithGroup is called, its result assigned to the
\* loop variable, and f is returned
FanOutWithGroup(f, name) ==
  IF name = ""
    THEN UNCHANGED vars
    ELSE LET kids == hlists[fans[f].arr]
             st == DeriveEach(Heap, kids, 1, "group", name, <<>>)
         IN /\ objs' = st.objs
            /\ arrs' = st.arrs
            /\ born' = st.born
            /\ fans' = Append(fans, [arr |-> fans[f].arr, kids |-> kids,
                                     from |-> f, op |-> "group", name |-> name,
                                     as |-> <<>>])
            /\ UNCHANGED <<hlists, rows>>
            /\ UNCHANGED <<storeVars, fanVars, postVars, restVars>>

(* ------------------------ Persister.Handle's row ----------------------- *)

\* the attributes a logging call can be given: an ordinary one, the empty
\* Attr (no key, zero value) and a group without members
LoggedAttrs == {MkAttr("k", IntVal(2)), MkAttr("", ZeroVal), MkAttr("g", GroupVal(<<>>))}
MaxLogged == 1
LoggedInputs == UNION {[1..n -> LoggedAttrs] : n \in 0..MaxLogged}

\* slog.Value.isEmptyGroup
IsEmptyGroup(v) == v.kind = "group" /\ v.g = <<>>

\* the attributes the slog.Record holds that Handle receives: Record.Add
\* keeps the attributes it is given except the empty groups
RecordOf(input) == SelectSeq(input, LAMBDA a : ~IsEmptyGroup(a.val))

\* the decimal digits of a small number
Digits == <<"0", "1", "2", "3", "4", "5", "6", "7", "8", "9">>

RECURSIVE Sprint(_)
RECURSIVE SprintAttrs(_, _)
\* fmt.Sprintf("%v", a.Value)
Sprint(v) ==
  CASE v.kind = "int" -> Digits[v.n + 1]
    [] v.kind = "any" -> "<nil>"
    [] v.kind = "group" -> "[" \o SprintAttrs(v.g, 1) \o "]"
\* the members of a group, key=value, separated by blanks
SprintAttrs(as, i) ==
  IF i > Len(as) THEN ""
  ELSE (IF i > 1 THEN " " ELSE "") \o as[i].key \o "=" \o Sprint(as[i].val)
       \o SprintAttrs(as, i + 1)

RECURSIVE RecordAttrsFrom(_, _)
\* recordAttrs after record.Attrs has visited the first i attributes:
\* recordAttrs[a.Key] = fmt.Sprintf("%v", a.Value), a later key overwriting
RecordAttrsFrom(rec, i) ==
  IF i = 0 THEN [k \in {} |-> ""]
  ELSE LET m == RecordAttrsFrom(rec, i - 1) IN
       [k \in DOMAIN m \cup {rec[i].key} |->
          IF k = rec[i].key THEN Sprint(rec[i].val) ELSE m[k]]

\* Persister.Handle on the Persister at address h: the attribute map is
\* built from the record's own attributes and passed to Store.Insert
PersisterHandle(c, h, input) ==
  /\ pc[c] = "idle"
  /\ objs[h].kind = "persister"
  /\ LET rec == RecordOf(input) IN
     rows' = Append(rows, [obj |-> h, input |-> input, rec |-> rec,
                           attrs |-> RecordAttrsFrom(rec, Len(rec))])
  /\ arg' = [arg EXCEPT ![c] = <<Len(rows) + 1, h>>]
  /\ nCalls' = nCalls + 1
  /\ pc' = [pc EXCEPT ![c] = "lock"]
  /\ UNCHANGED <<batch, mu, tickPending, session, executed, appended, ticked, preClose>>
  /\ UNCHANGED <<objs, arrs, hlists, fans, born>>
  /\ UNCHANGED <<fanVars, postVars, restVars>>

(* ----------------------------- posts.Store ----------------------------- *)

\* bound: the CreateThread and CreatePost calls made
MaxPostCalls == 3

\* bound: the InsertFile and GetFile calls made
MaxFileCalls == 3

\* bounds: the connections open at a time and the signals sent
MaxConns == 2
MaxSignals == 2

\* identifiers are strings of three kinds that never coincide: the names
\* users give to threads, what uuid.New returns, and the element ids of the
\* database
ThreadNames == {<<"name", 1>>, <<"name", 2>>}
Uuid(k) == <<"uuid", k>>
ElementId(k) == <<"elem", k>>
TagSets == {{}, {"tag1"}}
\* what a caller can pass to CreatePost as the thread
ThreadArgs ==
  ThreadNames \cup {Uuid(k) : k \in 1..nUuid} \cup {ElementId(k) : k \in 1..Len(threads)}

PostNone ==
  /\ threads = <<>>
  /\ posts = <<>>
  /\ calls = <<>>
  /\ nUuid = 0

\* CreateThread(thread): one write transaction that creates the Thread node
\* with a new uuid as threadID, then merges every tag into the threads
\* that have this name, and returns the node's element id. A database
\* failure (db = FALSE) rolls the transaction back.
CreateThread(name, tags, db) ==
  /\ Len(calls) < MaxPostCalls
  /\ IF db
       THEN /\ threads' = [i \in 1..(Len(threads) + 1) |->
                             IF i = Len(threads) + 1
                               THEN [threadID |-> Uuid(nUuid + 1), name |-> name, tags |-> tags]
                               ELSE IF threads[i].name = name
                                      THEN [threads[i] EXCEPT !.tags = @ \cup tags]
                                      ELSE threads[i]]
            /\ nUuid' = nUuid + 1
            /\ calls' = Append(calls, [op |-> "CreateThread", arg |-> name, db |-> db,
                                       ok |-> TRUE, res |-> ElementId(Len(threads) + 1)])
       ELSE /\ calls' = Append(calls, [op |-> "CreateThread", arg |-> name, db |-> db,
                                       ok |-> FALSE, res |-> <<"", 0>>])
            /\ UNCHANGED <<threads, nUuid>>
  /\ UNCHANGED posts
  /\ UNCHANGED <<storeVars, fanVars, derVars, restVars>>

\* CreatePost(post, threadID): one write transaction that creates a Post
\* node for every Thread node whose threadID property equals the argument;
\* res.Single fails unless exactly one was created, and the failed
\* transaction is rolled back
CreatePost(thread, db) ==
  /\ Len(calls) < MaxPostCalls
  /\ LET match == {i \in DOMAIN threads : threads[i].threadID = thread} IN
     IF db /\ Cardinality(match) = 1
       THEN /\ posts' = Append(posts, [postID |-> Uuid(nUuid + 1),
                                       thread |-> CHOOSE i \in match : TRUE])
            /\ nUuid' = nUuid + 1
            /\ calls' = Append(calls, [op |-> "CreatePost", arg |-> thread, db |-> db,
                                       ok |-> TRUE, res |-> Uuid(nUuid + 1)])
       ELSE /\ calls' = Append(calls, [op |-> "CreatePost", arg |-> thread, db |-> db,
                                       ok |-> FALSE, res |-> <<"", 0>>])
            /\ UNCHANGED <<posts, nUuid>>
  /\ UNCHANGED threads
  /\ UNCHANGED <<storeVars, fanVars, derVars, restVars>>

\* ---- posts.Store as the server package has it ----

\* CreateThread(thread) of server/repositories/posts: the threadID is drawn
\* before the transaction, the transaction creates the node and merges the
\* tags as above, and the call returns the threadID
ServerCreateThread(name, tags, db) ==
  /\ Len(calls) < MaxPostCalls
  /\ nUuid' = nUuid + 1
  /\ IF db
       THEN /\ threads' = [i \in 1..(Len(threads) + 1) |->
                             IF i = Len(threads) + 1
                               THEN [threadID |-> Uuid(nUuid + 1), name |-> name, tags |-> tags]
                               ELSE IF threads[i].name = name
                                      THEN [threads[i] EXCEPT !.tags = @ \cup tags]
                                      ELSE threads[i]]
            /\ calls' = Append(calls, [op |-> "CreateThread", arg |-> name, db |-> db,
                                       ok |-> TRUE, res |-> Uuid(nUuid + 1)])
       ELSE /\ calls' = Append(calls, [op |-> "CreateThread", arg |-> name, db |-> db,
                                       ok |-> FALSE, res |-> <<"", 0>>])
            /\ UNCHANGED threads
  /\ UNCHANGED posts
  /\ UNCHANGED <<storeVars, fanVars, derVars, restVars>>

\* the Post nodes MATCH (t:Thread {threadID: $thread}) CREATE (p:Post ...)
\* adds: one for every Thread node whose threadID equals the argument
CreatedPosts(thread, id) ==
  LET match == {i \in DOMAIN threads : threads[i].threadID = thread}
      F[n \in 0..Len(threads)] ==
        IF n = 0 THEN <<>>
        ELSE IF n \in match THEN Append(F[n - 1], [postID |-> id, thread |-> n])
             ELSE F[n - 1]
  IN F[Len(threads)]

\* CreatePost(post, threadID) of server/repositories/posts: the postID is
\* drawn before the transaction; the result of tx.Run is dropped, so the
\* transaction commits and the postID is returned with a nil error however
\* many Thread nodes the MATCH found
ServerCreatePost(thread, db) ==
  /\ Len(calls) < MaxPostCalls
  /\ nUuid' = nUuid + 1
  /\ IF db
       THEN /\ posts' = posts \o CreatedPosts(thread, Uuid(nUuid + 1))
            /\ calls' = Append(calls, [op |-> "CreatePost", arg |-> thread, db |-> db,
                                       ok |-> TRUE, res |-> Uuid(nUuid + 1)])
       ELSE /\ calls' = Append(calls, [op |-> "CreatePost", arg |-> thread, db |-> db,
                                       ok |-> FALSE, res |-> <<"", 0>>])
            /\ UNCHANGED posts
  /\ UNCHANGED threads
  /\ UNCHANGED <<storeVars, fanVars, derVars, restVars>>

\* ---- services/file: CachedService, the object store and the Redis cache ----

\* the file names and the contents (byte sequences) the calls are made with
FileNames == {"f1", "f2"}
Contents == {<<>>, <<1>>, <<1, 2>>}

\* nothing is kept under a name / the content d is kept under it
Absent == [has |-> FALSE, data |-> <<>>]
Held(d) == [has |-> TRUE, data |-> d]

\* no file inserted, an empty cache, no call made
CacheNone ==
  /\ objects = [n \in FileNames |-> Absent]
  /\ cache = [n \in FileNames |-> Absent]
  /\ lastFor = [n \in FileNames |-> Absent]
  /\ fcalls = <<>>

\* CachedService.InsertFile: the upload by base.InsertFile, then c.set; an
\* error of the upload returns before the cache is touched
InsertFile(name, file, s3ok, setok) ==
  /\ Len(fcalls) < MaxFileCalls
  /\ IF s3ok
       THEN /\ objects' = [objects EXCEPT ![name] = Held(file)]
            /\ IF setok
                 THEN /\ cache' = [cache EXCEPT ![name] = Held(file)]
                      /\ lastFor' = [lastFor EXCEPT ![name] = Held(file)]
                 ELSE UNCHANGED <<cache, lastFor>>
       ELSE UNCHANGED <<objects, cache, lastFor>>
  /\ fcalls' = Append(fcalls, [op |-> "InsertFile", name |-> name, ok |-> s3ok /\ setok,
                               from |-> "none", data |-> file])
  /\ UNCHANGED <<storeVars, fanVars, derVars, postVars, recVars, srvVars>>

\* the bytes io.TeeReader(rc, &buf) has written to buf when nRead bytes have
\* been read from the reader it returns
TeeBuffer(content, nRead) == SubSeq(content, 1, nRead)

\* CachedService.GetFile: a value found in Redis is returned; on redis.Nil the
\* object is fetched by base.GetFile, wrapped in a TeeReader, and c.set is
\* called with buf.Bytes() before anything has been read from that reader;
\* the caller then reads the returned reader to its end
GetFile(name, redis, s3ok, setok) ==
  /\ Len(fcalls) < MaxFileCalls
  /\ LET res(ok, from, data) ==
           [op |-> "GetFile", name |-> name, ok |-> ok, from |-> from, data |-> data]
     IN
     IF redis = "err"
       THEN /\ fcalls' = Append(fcalls, res(FALSE, "none", <<>>))
            /\ UNCHANGED <<cache, lastFor>>
       ELSE IF cache[name].has
         THEN /\ fcalls' = Append(fcalls, res(TRUE, "cache", cache[name].data))
              /\ UNCHANGED <<cache, lastFor>>
         ELSE IF ~(s3ok /\ objects[name].has)
           THEN /\ fcalls' = Append(fcalls, res(FALSE, "none", <<>>))
                /\ UNCHANGED <<cache, lastFor>>
           ELSE LET rc == objects[name].data IN
                IF setok
                  THEN /\ cache' = [cache EXCEPT ![name] = Held(TeeBuffer(rc, 0))]
                       /\ lastFor' = [lastFor EXCEPT ![name] = Held(rc)]
                       /\ fcalls' = Append(fcalls, res(TRUE, "store", rc))
                  ELSE /\ fcalls' = Append(fcalls, res(FALSE, "none", <<>>))
                       /\ UNCHANGED <<cache, lastFor>>
  /\ UNCHANGED objects
  /\ UNCHANGED <<storeVars, fanVars, derVars, postVars, recVars, srvVars>>

\* the TTL of a cached value passes: Redis drops it
Expire(name) ==
  /\ cache[name].has
  /\ cache' = [cache EXCEPT ![name] = Absent]
  /\ UNCHANGED <<objects, lastFor, fcalls>>
  /\ UNCHANGED <<storeVars, fanVars, derVars, postVars, recVars, srvVars>>

\* ---- api.Server: Start, the shutdown goroutine and the http.Server ----

\* no server started
SrvNone ==
  /\ startPc = "init"
  /\ sigPc = "none"
  /\ sigPending = FALSE
  /\ lsErr = "none"
  /\ sdErr = "none"
  /\ conns = 0
  /\ closes = 0
  /\ nSignals = 0

\* http.Server.shuttingDown: server.Shutdown has been called
ShuttingDown == sigPc \in {"draining", "close", "done"}

\* the process has not been ended by a signal
Alive == startPc # "killed"

srvFrame == <<storeVars, fanVars, derVars, postVars, recVars, cacheVars>>

\* Start calls handleShutdown, which makes the channel, starts the goroutine
\* and returns; Start goes on to server.ListenAndServe
StartSpawn ==
  /\ startPc = "init"
  /\ startPc' = "listen"
  /\ sigPc' = "notify"
  /\ UNCHANGED <<sigPending, lsErr, sdErr, conns, closes, nSignals>>
  /\ UNCHANGED srvFrame

\* the goroutine registers shutdownSignal for os.Interrupt and SIGTERM and
\* blocks on it
SigNotify ==
  /\ Alive /\ sigPc = "notify"
  /\ sigPc' = "wait"
  /\ UNCHANGED <<startPc, sigPending, lsErr, sdErr, conns, closes, nSignals>>
  /\ UNCHANGED srvFrame

\* a signal is sent to the process: before signal.Notify it ends the process;
\* afterwards it is put into shutdownSignal, or dropped when that is full
SendSignal ==
  /\ Alive /\ startPc # "init"
  /\ nSignals < MaxSignals
  /\ nSignals' = nSignals + 1
  /\ IF sigPc = "notify"
       THEN /\ startPc' = "killed"
            /\ UNCHANGED sigPending
       ELSE /\ sigPending' = TRUE
            /\ UNCHANGED startPc
  /\ UNCHANGED <<sigPc, lsErr, sdErr, conns, closes>>
  /\ UNCHANGED srvFrame

\* <-shutdownSignal: the goroutine takes the signal and calls the callback
SigReceive ==
  /\ Alive /\ sigPc = "wait" /\ sigPending
  /\ sigPending' = FALSE
  /\ sigPc' = "shutdown"
  /\ UNCHANGED <<startPc, lsErr, sdErr, conns, closes, nSignals>>
  /\ UNCHANGED srvFrame

\* server.Shutdown(ctx) marks the server as shutting down and closes its
\* listeners, then waits for the connections
ShutdownBegin ==
  /\ Alive /\ sigPc = "shutdown"
  /\ sigPc' = "draining"
  /\ UNCHANGED <<startPc, sigPending, lsErr, sdErr, conns, closes, nSignals>>
  /\ UNCHANGED srvFrame

\* server.Shutdown returns: nil when no connection is left, ctx.Err() when
\* the context is done first; the callback logs the error and returns
ShutdownEnd(err) ==
  /\ Alive /\ sigPc = "draining"
  /\ err = "nil" => conns = 0
  /\ sdErr' = err
  /\ sigPc' = "close"
  /\ UNCHANGED <<startPc, sigPending, lsErr, conns, closes, nSignals>>
  /\ UNCHANGED srvFrame

\* close(shutdown), after the callback has returned; the goroutine ends
SigClose ==
  /\ Alive /\ sigPc = "close"
  /\ closes' = closes + 1
  /\ sigPc' = "done"
  /\ UNCHANGED <<startPc, sigPending, lsErr, sdErr, conns, nSignals>>
  /\ UNCHANGED srvFrame

\* ListenAndServe: a server that is shutting down returns ErrServerClosed
\* at once; otherwise the address is bound
ListenCheck ==
  /\ startPc = "listen"
  /\ IF ShuttingDown
       THEN /\ lsErr' = "closed"
            /\ startPc' = "ended"
       ELSE /\ startPc' = "bind"
            /\ UNCHANGED lsErr
  /\ UNCHANGED <<sigPc, sigPending, sdErr, conns, closes, nSignals>>
  /\ UNCHANGED srvFrame

\* net.Listen: it fails (the port is taken) or the server starts to serve
ListenBind(ok) ==
  /\ startPc = "bind"
  /\ IF ok
       THEN /\ startPc' = "serving"
            /\ UNCHANGED lsErr
       ELSE /\ lsErr' = "other"
            /\ startPc' = "ended"
  /\ UNCHANGED <<sigPc, sigPending, sdErr, conns, closes, nSignals>>
  /\ UNCHANGED srvFrame

\* Serve's loop accepts a connection
Accept ==
  /\ startPc = "serving" /\ ~ShuttingDown
  /\ conns < MaxConns
  /\ conns' = conns + 1
  /\ UNCHANGED <<startPc, sigPc, sigPending, lsErr, sdErr, closes, nSignals>>
  /\ UNCHANGED srvFrame

\* a connection ends
ConnDone ==
  /\ Alive /\ conns > 0
  /\ conns' = conns - 1
  /\ UNCHANGED <<startPc, sigPc, sigPending, lsErr, sdErr, closes, nSignals>>
  /\ UNCHANGED srvFrame

\* Serve returns: ErrServerClosed once Shutdown has closed the listener, the
\* listener's error when Accept fails on a server that is not shutting down
ServeEnd ==
  /\ startPc = "serving"
  /\ lsErr' = IF ShuttingDown THEN "closed" ELSE "other"
  /\ startPc' = "ended"
  /\ UNCHANGED <<sigPc, sigPending, sdErr, conns, closes, nSignals>>
  /\ UNCHANGED srvFrame

\* if err := server.ListenAndServe(); errors.Is(err, http.ErrServerClosed):
\* Start goes to wait for the channel; on any other error it logs and returns
StartBranch ==
  /\ startPc = "ended"
  /\ startPc' = IF lsErr = "closed" THEN "waiting" ELSE "returned"
  /\ UNCHANGED <<sigPc, sigPending, lsErr, sdErr, conns, closes, nSignals>>
  /\ UNCHANGED srvFrame

\* faulty variant: Start does not wait for the channel to be closed
StartWait_NoWait ==
  /\ startPc = "waiting"
  /\ startPc' = "returned"
  /\ UNCHANGED <<sigPc, sigPending, lsErr, sdErr, conns, closes, nSignals>>
  /\ UNCHANGED srvFrame

\* <-shutdownComplete: Start goes on when the channel has been closed, logs
\* and returns
StartWait ==
  /\ startPc = "waiting"
  /\ closes > 0
  /\ startPc' = "returned"
  /\ UNCHANGED <<sigPc, sigPending, lsErr, sdErr, conns, closes, nSignals>>
  /\ UNCHANGED srvFrame

\* nothing logged, no file, no server: the parts a specification leaves alone
RecNone == RecInit([n |-> 1, spare |-> 0])
RestNone == RecNone /\ CacheNone /\ SrvNone

(* --------------------------- specifications ---------------------------- *)

\* the store used directly: Insert calls, the worker, the ticker and Close
Init == StoreInit /\ FanInit(<<>>) /\ DerNone /\ PostNone /\ RestNone
Next == StoreNext
Spec == Init /\ [][Next]_vars

\* the store with one inserting goroutine, under the scheduling the Go
\* runtime gives: a goroutine that can take its next step takes it, and the
\* ticker keeps firing. Whether and when Insert or Close is called is left
\* to the callers.
NextLive ==
  \/ \E c \in Loggers : InsertCall(c)
  \/ \E c \in Loggers : InsertLock(c)
  \/ \E c \in Loggers : InsertAppend(c)
  \/ \E c \in Loggers : InsertSend(c)
  \/ \E c \in Loggers : InsertUnlock(c)
  \/ TimerFire
  \/ WorkerTick
  \/ \E p \in Flushers : FlushLock(p)
  \/ \E p \in Flushers : FlushCheck(p)
  \/ \E p \in Flushers : FlushExecute(p)
  \/ \E p \in Flushers : FlushClear(p)
  \/ CloseCall
  \/ CloseSession
SpecLive ==
  /\ Init
  /\ [][NextLive]_vars
  /\ WF_vars(TimerFire)
  /\ WF_vars(WorkerTick)
  /\ \A p \in Flushers :
       /\ WF_vars(FlushLock(p))
       /\ WF_vars(FlushCheck(p))
       /\ WF_vars(FlushExecute(p))
       /\ WF_vars(FlushClear(p))
  /\ WF_vars(CloseSession)
  /\ \A c \in Loggers :
       /\ WF_vars(InsertLock(c))
       /\ WF_vars(InsertAppend(c))
       /\ WF_vars(InsertSend(c))
       /\ WF_vars(InsertUnlock(c))

\* the logging path: records logged through a FanOut over writers and
\* Persisters, the store's worker and ticker running behind the Persisters
InitLog == StoreInit /\ DerNone /\ PostNone /\ RestNone /\ \E hs \in HandlerConfigs : FanInit(hs)
NextLog ==
  \/ \E c \in Loggers : LogCall(c)
  \/ \E c \in Loggers : FanSkip(c)
  \/ \E c \in Loggers : FanInvoke(c)
  \/ \E c \in Loggers : WriterReturn(c)
  \/ \E c \in Loggers : PersisterReturn(c)
  \/ \E c \in Loggers : FanReturn(c)
  \/ \E c \in Loggers : InsertLock(c)
  \/ \E c \in Loggers : InsertAppend(c)
  \/ \E c \in Loggers : InsertSend(c)
  \/ \E c \in Loggers : InsertUnlock(c)
  \/ TimerFire
  \/ WorkerTick
  \/ FlushLock("worker")
  \/ FlushCheck("worker")
  \/ FlushExecute("worker")
  \/ FlushClear("worker")
SpecLog == InitLog /\ [][NextLog]_vars

\* ---- the records FanOut.Handle hands to its children ----

\* FanOuts whose children are writers
WriterConfigs ==
  {hs \in HandlerConfigs : \A i \in DOMAIN hs : hs[i].kind = "writer"}

\* one goroutine logs records of some shape through a FanOut of writers, each
\* of which may add an attribute to the record it receives
InitCopy ==
  /\ StoreInit /\ DerNone /\ PostNone /\ CacheNone /\ SrvNone
  /\ \E hs \in WriterConfigs : FanInit(hs)
  /\ \E shape \in RecordShapes : RecInit(shape)
NextCopy ==
  \/ \E c \in Loggers : LogCall(c)
  \/ \E c \in Loggers : FanSkip(c)
  \/ \E c \in Loggers : FanInvoke(c)
  \/ \E c \in Loggers : WriterAdds(c)
  \/ \E c \in Loggers : WriterReturn(c)
  \/ \E c \in Loggers : FanReturn(c)
SpecCopy == InitCopy /\ [][NextCopy]_vars

\* derivation: WithAttrs and WithGroup called, in any order, on the FanOut
\* that main builds, on the FanOuts these calls return, on the Persister
\* and on the Persisters derived from it
InitDerive == StoreInit /\ FanInit(<<>>) /\ DerInit /\ PostNone /\ RestNone
NextDerive ==
  \/ \E h \in DOMAIN objs : \E as \in AddedAttrs :
       Len(objs) < MaxObjs /\ PersisterWithAttrs(h, as)
  \/ \E h \in DOMAIN objs : \E name \in GroupNames :
       Len(objs) < MaxObjs /\ PersisterWithGroup(h, name)
  \/ \E f \in DOMAIN fans : \E as \in AddedAttrs :
       Len(objs) + Len(hlists[fans[f].arr]) <= MaxObjs /\ FanOutWithAttrs(f, as)
  \/ \E f \in DOMAIN fans : \E name \in GroupNames :
       Len(objs) + Len(hlists[fans[f].arr]) <= MaxObjs /\ FanOutWithGroup(f, name)
SpecDerive == InitDerive /\ [][NextDerive]_vars

\* a Persister in use: Persisters are derived and records are handled by
\* them, the store's worker and ticker running behind
NextPersist ==
  \/ \E h \in DOMAIN objs : \E as \in AddedAttrs :
       Len(objs) < 2 + MaxDerived /\ PersisterWithAttrs(h, as)
  \/ \E h \in DOMAIN objs : \E name \in GroupNames :
       Len(objs) < 2 + MaxDerived /\ PersisterWithGroup(h, name)
  \/ \E c \in Loggers : \E h \in DOMAIN objs : \E input \in LoggedInputs :
       Len(rows) < MaxHandles /\ PersisterHandle(c, h, input)
  \/ \E c \in Loggers : InsertLock(c)
  \/ \E c \in Loggers : InsertAppend(c)
  \/ \E c \in Loggers : InsertSend(c)
  \/ \E c \in Loggers : InsertUnlock(c)
  \/ TimerFire
  \/ WorkerTick
  \/ FlushLock("worker")
  \/ FlushCheck("worker")
  \/ FlushExecute("worker")
  \/ FlushClear("worker")
SpecPersist == InitDerive /\ [][NextPersist]_vars

\* the posts store: threads and posts created in a graph database
InitPosts == StoreInit /\ FanInit(<<>>) /\ DerNone /\ PostNone /\ RestNone
NextPosts ==
  \/ \E name \in ThreadNames : \E tags \in TagSets : \E db \in BOOLEAN :
       CreateThread(name, tags, db)
  \/ \E thread \in ThreadArgs : \E db \in BOOLEAN : CreatePost(thread, db)
SpecPosts == InitPosts /\ [][NextPosts]_vars

\* the server package's store: the same calls, made on its CreateThread and
\* CreatePost
NextPostsServer ==
  \/ \E name \in ThreadNames : \E tags \in TagSets : \E db \in BOOLEAN :
       ServerCreateThread(name, tags, db)
  \/ \E thread \in ThreadArgs : \E db \in BOOLEAN : ServerCreatePost(thread, db)
SpecPostsServer == InitPosts /\ [][NextPostsServer]_vars

\* ---- the file service: inserts, reads and expiring cache entries ----

InitFiles == StoreInit /\ FanInit(<<>>) /\ DerNone /\ PostNone /\ RestNone
NextFiles ==
  \/ \E name \in FileNames : \E file \in Contents : \E s3ok, setok \in BOOLEAN :
       InsertFile(name, file, s3ok, setok)
  \/ \E name \in FileNames : \E redis \in {"ok", "err"} : \E s3ok, setok \in BOOLEAN :
       GetFile(name, redis, s3ok, setok)
  \/ \E name \in FileNames : Expire(name)
SpecFiles == InitFiles /\ [][NextFiles]_vars

\* ---- the HTTP server: start, serve, signals and shutdown ----

InitServer == StoreInit /\ FanInit(<<>>) /\ DerNone /\ PostNone /\ RestNone
NextServer ==
  \/ StartSpawn
  \/ SigNotify
  \/ SendSignal
  \/ SigReceive
  \/ ShutdownBegin
  \/ \E err \in {"nil", "ctx"} : ShutdownEnd(err)
  \/ SigClose
  \/ ListenCheck
  \/ \E ok \in BOOLEAN : ListenBind(ok)
  \/ Accept
  \/ ConnDone
  \/ ServeEnd
  \/ StartBranch
  \/ StartWait
SpecServer == InitServer /\ [][NextServer]_vars

(* ------------------------- properties: the store ----------------------- *)

RECURSIVE Flatten(_)
\* the entries of a sequence of ExecuteBatch calls, in order
Flatten(ex) == IF ex = <<>> THEN <<>> ELSE Head(ex).entries \o Flatten(Tail(ex))

\* how often x occurs in the sequence s
Count(x, s) == Cardinality({i \in DOMAIN s : s[i] = x})

\* the elements of the sequence s
Range(s) == {s[i] : i \in DOMAIN s}

ExecutedEntries == Flatten(executed)
NoFailure == \A i \in DOMAIN executed : executed[i].ok
InFlush(p) == pc[p] \in {"lock", "check", "exec", "clear"}

\* C1: as long as no ExecuteBatch call has failed, no entry has been passed to
\* ExecuteBatch twice (by whichever flushes), and once Close has returned every
\* entry that was appended before Close was called has been passed to it
\* exactly once.
C1_ExactlyOnce ==
  NoFailure =>
    /\ \A e \in Range(ExecutedEntries) : Count(e, ExecutedEntries) <= 1
    /\ pc["closer"] = "done" =>
         \A i \in DOMAIN preClose : Count(preClose[i], ExecutedEntries) = 1

\* C1 witness: Close has returned after more entries than one batch holds were
\* inserted, so that both the worker and Close have executed a batch.
C1_Witness ==
  /\ pc["closer"] = "done"
  /\ NoFailure
  /\ Len(preClose) > BatchSize
  /\ \E i \in DOMAIN executed : executed[i].by = "worker"
  /\ \E i \in DOMAIN executed : executed[i].by = "closer"

\* C2: there is no state in which an Insert holds the lock and is blocked in
\* its send on flushCh while the worker, having left its select, waits for
\* that lock in flushBatch.
C2_NoSignalDeadlock ==
  ~ \E c \in Loggers :
       /\ pc[c] = "send"
       /\ mu = c
       /\ pc["worker"] = "lock"

\* C3: with no tick and no Close, the first BatchSize Insert calls cause at
\* most one ExecuteBatch call, it carries exactly those BatchSize entries, and
\* it has been made once those calls have returned and the worker is back in
\* its select.
C3_SizeFlush ==
  (~ticked /\ pc["closer"] = "idle" /\ nCalls <= BatchSize) =>
    /\ Len(executed) <= 1
    /\ \A i \in DOMAIN executed :
         /\ Len(executed[i].entries) = BatchSize
         /\ Range(executed[i].entries) = {<<k, 0>> : k \in 1..BatchSize}
         /\ executed[i].by = "worker"
    /\ ( /\ nCalls = BatchSize
         /\ \A c \in Callers : pc[c] = "idle"
         /\ pc["worker"] = "select" )
       => Len(executed) = 1

\* C3 witness: BatchSize inserts, no tick, no Close, and the flush has happened.
C3_Witness ==
  /\ ~ticked
  /\ pc["closer"] = "idle"
  /\ nCalls = BatchSize
  /\ \A c \in Callers : pc[c] = "idle"
  /\ pc["worker"] = "select"
  /\ Len(executed) = 1

\* C4: the session is closed only after Close's flush has returned, and a
\* Close called after BatchSize-1 entries were inserted (no tick, no other
\* Insert) has, when it returns, made exactly one ExecuteBatch call, on the
\* open session, carrying those entries.
C4_CloseFlushes ==
  /\ session = "closed" => pc["closer"] = "done"
  /\ InFlush("closer") => session = "open"
  /\ ( /\ pc["closer"] = "done"
       /\ ~ticked
       /\ nCalls = BatchSize - 1
       /\ Len(preClose) = BatchSize - 1 )
     => /\ Len(executed) = 1
        /\ executed[1].entries = preClose
        /\ executed[1].by = "closer"
        /\ executed[1].open

\* C4 witness: Close has returned in that scenario with a non-empty flush.
C4_Witness ==
  /\ pc["closer"] = "done"
  /\ session = "closed"
  /\ ~ticked
  /\ nCalls = BatchSize - 1
  /\ Len(preClose) = BatchSize - 1
  /\ Len(preClose) > 0
  /\ Len(executed) = 1

\* an Insert call that cannot take its next step
InsertBlocked(c) ==
  \/ pc[c] = "lock" /\ mu # "none"
  \/ pc[c] = "send" /\ pc["worker"] # "select"

\* C5 as stated: no Insert call is blocked, on the lock or on the send, while
\* a flush is inside ExecuteBatch.
C5_NeverWaitsOnExecute ==
  ~ \E c \in Loggers, p \in Flushers : InsertBlocked(c) /\ pc[p] = "exec"

\* C5 as amended: while a flush is inside ExecuteBatch no Insert is past its
\* lock acquisition (appending, signalling or returning): an Insert at most
\* waits for the lock, and ExecuteBatch is only ever called by a flush.
C5_OnlyLockWait ==
  /\ \A p \in Flushers :
       pc[p] = "exec" => \A c \in Callers : pc[c] \in {"idle", "lock"}
  /\ \A i \in DOMAIN executed : executed[i].by \in Flushers

\* C5 witness: an Insert waits for the lock while a flush executes.
C5_Witness ==
  \E c \in Loggers, p \in Flushers : pc[c] = "lock" /\ pc[p] = "exec" /\ mu = p

(* ------------------------- properties: the FanOut ---------------------- *)

\* FanOut.Handle has returned to the caller c
Returned(c) == hres[c].done

\* child j reports enabled for the record c logs
EnabledFor(c, j) == hlevel[c] >= handlers[j].level

\* the children after position k of c's call that are enabled for its record
\* have all been invoked, after the k-th invocation
LaterInvoked(c, k) ==
  \A j \in (invoked[c][k] + 1)..Len(handlers) :
    EnabledFor(c, j) => \E m \in DOMAIN invoked[c] : m > k /\ invoked[c][m] = j

\* every Persister among them has appended the record to the store's batch
LaterInserted(c, k) ==
  \A j \in (invoked[c][k] + 1)..Len(handlers) :
    (EnabledFor(c, j) /\ handlers[j].kind = "persister")
      => Count(<<hrec[c], j>>, appended) = 1

\* the error FanOut.Handle returned to c carries the error `how` of child i
Carries(c, i, how) ==
  /\ ~hres[c].isNil
  /\ \E n \in DOMAIN hres[c].errs : hres[c].errs[n] = [child |-> i, how |-> how]

\* C6: when FanOut.Handle has returned and a child returned an error, every
\* later enabled child was invoked, every later enabled Persister inserted the
\* record, and the returned error is non-nil and includes that child's error.
C6_ErrorIsolated ==
  \A c \in Loggers : Returned(c) =>
    \A k \in DOMAIN outs[c] : outs[c][k] = "err" =>
      /\ LaterInvoked(c, k)
      /\ LaterInserted(c, k)
      /\ Carries(c, invoked[c][k], "returned")

\* C6 witness: [A fails, B is a Persister]: both were invoked, B inserted.
C6_Witness ==
  \E c \in Loggers :
    /\ Returned(c)
    /\ Len(handlers) = 2
    /\ handlers[2].kind = "persister"
    /\ invoked[c] = <<1, 2>>
    /\ outs[c] = <<"err", "ok">>
    /\ <<hrec[c], 2>> \in Range(appended)
    /\ ~hres[c].isNil

\* C7: no panic of a child's Handle leaves FanOut.Handle; when Handle has
\* returned, a child that panicked is followed by every later enabled child,
\* and its panic is among the returned errors (the panic value itself when it
\* is an error, a wrapping error otherwise).
C7_PanicRecovered ==
  \A c \in Loggers :
    /\ pc[c] # "panicked"
    /\ Returned(c) =>
         \A k \in DOMAIN outs[c] :
           /\ outs[c][k] = "panicErr" =>
                LaterInvoked(c, k) /\ Carries(c, invoked[c][k], "panic")
           /\ outs[c][k] = "panicVal" =>
                LaterInvoked(c, k) /\ Carries(c, invoked[c][k], "unexpected")

\* C7 witness: the first child panicked and the second was still invoked.
C7_Witness ==
  \E c \in Loggers :
    /\ Returned(c)
    /\ invoked[c] = <<1, 2>>
    /\ outs[c][1] \in {"panicErr", "panicVal"}
    /\ Len(outs[c]) = 2

\* the positions of c's call at which the child failed
FailedAt(c) ==
  SelectSeq([k \in 1..Len(outs[c]) |-> k], LAMBDA k : outs[c][k] # "ok")

\* C8: FanOut.Handle returns nil exactly when no invoked child failed, and
\* otherwise an error carrying one error per failed child, in registration
\* order.
C8_AggregateError ==
  \A c \in Loggers : Returned(c) =>
    /\ hres[c].isNil <=> (\A k \in DOMAIN outs[c] : outs[c][k] = "ok")
    /\ Len(hres[c].errs) = Len(FailedAt(c))
    /\ \A n \in DOMAIN hres[c].errs :
         hres[c].errs[n].child = invoked[c][FailedAt(c)[n]]

\* C8 witness: two children failed and both errors were returned.
C8_Witness ==
  \E c \in Loggers :
    /\ Returned(c)
    /\ Len(FailedAt(c)) = 2
    /\ Len(hres[c].errs) = 2

\* the children enabled for c's record, in registration order
EnabledChildren(c) ==
  SelectSeq([j \in 1..Len(handlers) |-> j], LAMBDA j : EnabledFor(c, j))

\* s is an initial part of t
IsPrefix(s, t) == Len(s) <= Len(t) /\ \A i \in DOMAIN s : s[i] = t[i]

\* C9: the children FanOut.Handle has invoked are at every moment an initial
\* part of the children enabled for the record, in registration order, and
\* are all of them when Handle returns: each enabled child once, no disabled
\* child ever.
C9_EnabledChildrenOnly ==
  \A c \in Loggers : hrec[c] # 0 =>
    /\ IsPrefix(invoked[c], EnabledChildren(c))
    /\ Returned(c) => invoked[c] = EnabledChildren(c)

\* C9 witness: children [A(min=info), B(min=error)], a warn record: A was
\* invoked, B was not.
C9_Witness ==
  \E c \in Loggers :
    /\ Returned(c)
    /\ Len(handlers) = 2
    /\ handlers[1].level = LevelInfo
    /\ handlers[2].level = LevelError
    /\ hlevel[c] = LevelWarn
    /\ invoked[c] = <<1>>

\* C10: FanOut.Enabled(level) answers true exactly when some child is enabled
\* for the level.
C10_EnabledIffAny ==
  \A c \in Loggers : enRes[c].called =>
    (enRes[c].res <=> \E j \in DOMAIN handlers : enRes[c].level >= handlers[j].level)

\* C10 witness: Enabled answered true although the first child is disabled.
C10_Witness ==
  \E c \in Loggers :
    /\ enRes[c].called
    /\ enRes[c].res
    /\ Len(handlers) = 2
    /\ enRes[c].level < handlers[1].level

(* -------------------- properties: flush, liveness, bounds -------------- *)

\* C16: a flush passes the whole pending batch to ExecuteBatch (when
\* ExecuteBatch has returned, what it was given is still the entire batch), a
\* finished flush leaves none of the entries it executed pending, whether
\* the call succeeded or failed, and no entry is passed to ExecuteBatch by
\* two calls, so a failed batch is never retried.
C16_FlushWholeAndClear ==
  /\ \A p \in Flushers : pc[p] = "clear" =>
       /\ executed # <<>>
       /\ executed[Len(executed)].entries = batch
       /\ executed[Len(executed)].by = p
  /\ (\A p \in Flushers : pc[p] # "clear") =>
       \A i \in DOMAIN executed : Range(executed[i].entries) \cap Range(batch) = {}
  /\ \A i, j \in DOMAIN executed :
       i < j => Range(executed[i].entries) \cap Range(executed[j].entries) = {}

\* C16 witness: a batch failed, was dropped, and a later batch was executed.
C16_Witness ==
  /\ Len(executed) >= 2
  /\ ~executed[1].ok
  /\ batch = <<>>
  /\ \A p \in Flushers : pc[p] # "clear"

\* the steps the worker can take
WorkerStep ==
  \/ WorkerTick
  \/ FlushLock("worker")
  \/ FlushCheck("worker")
  \/ FlushExecute("worker")
  \/ FlushClear("worker")

\* C17: a logging call never panics and, while it is inside FanOut.Handle, is
\* never blocked for good: either the call itself or the store's worker, on
\* which a blocked Insert waits, can take a step.
C17_HandleNeverStuck ==
  \A c \in Loggers :
    /\ pc[c] # "panicked"
    /\ pc[c] # "idle" =>
         \/ pc[c] \in {"fan", "child", "pret", "append", "unlock"}
         \/ pc[c] = "lock" /\ (mu = "none" \/ ENABLED WorkerStep)
         \/ pc[c] = "send" /\ (pc["worker"] = "select" \/ ENABLED WorkerStep)

\* the entries an Insert call can pass
Entries == {<<k, 0>> : k \in 1..MaxInserts}

\* no Insert and no Close is in progress
Quiet ==
  /\ \A c \in Callers : pc[c] = "idle"
  /\ pc["closer"] \in {"idle", "done"}

\* the entry e has been passed to ExecuteBatch by the worker's flush
ExecutedByWorker(e) ==
  \E i \in DOMAIN executed :
    executed[i].by = "worker" /\ e \in Range(executed[i].entries)

\* C18: an entry pending in a batch below the threshold, with no Insert or
\* Close in progress, is eventually passed to ExecuteBatch by the worker's
\* flush unless a further Insert or a Close is called first: the ticker and
\* the worker alone get it there.
C18_TimeFlush ==
  \A e \in Entries :
    (e \in Range(batch) /\ Len(batch) < BatchSize /\ Quiet)
      ~> (ExecutedByWorker(e) \/ ~Quiet)

\* C18 witness: the worker has executed a batch below the threshold after a
\* tick, with nothing else going on.
C18_Witness ==
  /\ Len(executed) = 1
  /\ executed[1].by = "worker"
  /\ Len(executed[1].entries) < BatchSize
  /\ ticked
  /\ Quiet
  /\ pc["closer"] = "idle"

\* C20: the pending batch never holds more than BatchSize entries and no
\* ExecuteBatch call carries more than BatchSize entries.
C20_BoundedBatch ==
  /\ Len(batch) <= BatchSize
  /\ \A i \in DOMAIN executed : Len(executed[i].entries) <= BatchSize

(* ----------------- properties: derivation and the row ------------------ *)

\* C11: the children of a FanOut returned by WithAttrs or WithGroup are the
\* results of calling WithAttrs or WithGroup, with the same argument, on the
\* children of the FanOut it was called on, one for one and in order.
C11_DerivedChildren ==
  \A f \in DOMAIN fans :
    fans[f].from # 0 =>
      LET kids == hlists[fans[f].arr]
          orig == fans[fans[f].from].kids
      IN /\ Len(kids) = Len(orig)
         /\ \A i \in DOMAIN kids :
              /\ born[kids[i]].from = orig[i]
              /\ born[kids[i]].op = fans[f].op
              /\ born[kids[i]].name = fans[f].name
              /\ born[kids[i]].as = fans[f].as

RowInserted(k) == \E i \in DOMAIN appended : appended[i] = <<k, rows[k].obj>>

\* C13: the row inserted by a Persister obtained by WithAttrs({x: 1}), for a
\* record without an attribute x, has an attribute map that holds x = 1
\* next to the record's own attributes.
C13_DerivedAttrsInRow ==
  \A k \in DOMAIN rows :
    LET p == rows[k].obj IN
    ( /\ RowInserted(k)
      /\ born[p].op = "attrs"
      /\ born[p].as = <<MkAttr("x", IntVal(1))>>
      /\ born[born[p].from].op = "new"
      /\ \A i \in DOMAIN rows[k].rec : rows[k].rec[i].key # "x" )
    => /\ "x" \in DOMAIN rows[k].attrs
       /\ rows[k].attrs["x"] = "1"
       /\ \A i \in DOMAIN rows[k].rec : rows[k].rec[i].key \in DOMAIN rows[k].attrs

\* C14: a Persister keeps the attributes and the groups it had when it was
\* created, whatever is derived afterwards from it or from any other
\* Persister.
C14_CopyOnDerive ==
  \A k \in DOMAIN objs :
    objs[k].kind = "persister" =>
      /\ objs[k].attrs = born[k].attrs
      /\ GroupsOf(objs[k]) = born[k].groups

\* an attribute with no key and the zero value, or a group without members
IsEmptyAttr(a) == (a.key = "" /\ a.val = ZeroVal) \/ IsEmptyGroup(a.val)

\* C15: every key of an inserted row's attribute map is the key of an
\* attribute of the logging call that is not empty.
C15_NoEmptyAttrs ==
  \A k \in DOMAIN rows :
    RowInserted(k) =>
      \A key \in DOMAIN rows[k].attrs :
        \E i \in DOMAIN rows[k].input :
          rows[k].input[i].key = key /\ ~IsEmptyAttr(rows[k].input[i])

(* ----------------------- properties: posts.Store ----------------------- *)

\* C19: a CreatePost call that passes as its thread the name of a thread
\* that an earlier CreateThread call created returns without error, the
\* database itself not failing.
C19_PostAfterThread ==
  \A i, j \in DOMAIN calls :
    ( /\ i < j
      /\ calls[i].op = "CreateThread" /\ calls[i].ok
      /\ calls[j].op = "CreatePost" /\ calls[j].db
      /\ calls[j].arg = calls[i].arg )
    => calls[j].ok

(* --------------- properties: worker, lock, order, no-op ---------------- *)

\* C21: once Close has returned the worker is in no flush, and no
\* ExecuteBatch call is ever made on a session that has been closed.
C21_WorkerStopsAtClose ==
  /\ pc["closer"] = "done" => ~InFlush("worker")
  /\ \A i \in DOMAIN executed : executed[i].open

\* p is between its mu.Lock() and its mu.Unlock()
InCritical(p) == pc[p] \in {"append", "send", "unlock", "check", "exec", "clear"}

\* C22: at most one of the Insert calls, the worker's flush and Close's
\* flush is between Lock and Unlock, it is the holder of the lock, and the
\* steps that read, append to, execute or replace the batch are taken there.
C22_MutualExclusion ==
  /\ \A p, q \in Procs : (InCritical(p) /\ InCritical(q)) => p = q
  /\ \A p \in Procs : InCritical(p) <=> mu = p

\* C22 witness: an Insert holds the lock while the other Insert, the worker
\* and Close all wait for it.
C22_Witness ==
  /\ mu = "c1"
  /\ pc["c1"] = "append"
  /\ pc["c2"] = "lock"
  /\ pc["worker"] = "lock"
  /\ pc["closer"] = "lock"

\* C23: the entries passed to ExecuteBatch, batch after batch and within
\* each batch, are in the order in which the Insert calls appended them
\* under the lock, and the pending entries come after all of them.
C23_FifoFlush ==
  /\ IsPrefix(ExecutedEntries, appended)
  /\ (\A p \in Flushers : pc[p] # "clear") => appended = ExecutedEntries \o batch

\* C23 witness: two batches have been executed, the first with entries of
\* both inserting goroutines.
C23_Witness ==
  /\ Len(executed) >= 2
  /\ Len(executed[1].entries) >= 2
  /\ executed[2].entries # <<>>
  /\ nCalls = MaxInserts

\* C24: no ExecuteBatch call is made with an empty batch, a flush goes past
\* its emptiness test only with entries pending, and as long as nothing has
\* been inserted nothing reaches the durable store and the batch stays empty.
C24_EmptyFlushNoOp ==
  /\ \A i \in DOMAIN executed : executed[i].entries # <<>>
  /\ \A p \in Flushers : pc[p] \in {"exec", "clear"} => batch # <<>>
  /\ appended = <<>> => (executed = <<>> /\ batch = <<>>)

\* C24 witness: the worker has taken a tick, and Close has flushed, with
\* nothing pending.
C24_Witness ==
  /\ ticked
  /\ ~tickPending
  /\ pc["worker"] = "select"
  /\ pc["closer"] = "done"
  /\ appended = <<>>

\* C25: a record that reaches FanOut.Handle is inserted into the log store at
\* most once per Persister child: never for a child that is not enabled for
\* its level, and exactly once, when Handle has returned, for an enabled one
C25_OncePerPersister ==
  \A c \in Loggers : hrec[c] # 0 =>
    \A j \in DOMAIN handlers : handlers[j].kind = "persister" =>
      LET n == Count(<<hrec[c], j>>, appended) IN
      /\ n <= 1
      /\ ~EnabledFor(c, j) => n = 0
      /\ (Returned(c) /\ EnabledFor(c, j)) => n = 1
C25_Witness ==
  /\ Returned("c1")
  /\ Len(handlers) = 2
  /\ handlers[1].kind = "persister" /\ handlers[2].kind = "persister"
  /\ ~EnabledFor("c1", 1) /\ EnabledFor("c1", 2)
  /\ Count(<<hrec["c1"], 1>>, appended) = 0
  /\ Count(<<hrec["c1"], 2>>, appended) = 1

\* C26: every child invoked by FanOut.Handle holds a record of its own: its
\* attributes are the logged ones followed by what this child added, whatever
\* the other children added to theirs, and the caller's record keeps the
\* logged attributes
C26_IndependentClones ==
  \A c \in Loggers : hrec[c] # 0 =>
    /\ RecordAttrs(rheap, crec[c]) = LoggedSeq(logged[c].n)
    /\ \A k \in DOMAIN given[c] :
         RecordAttrs(rheap, given[c][k]) = LoggedSeq(logged[c].n) \o added[c][k]
C26_Witness ==
  /\ logged["c1"].spare = 1
  /\ Len(given["c1"]) = 2
  /\ added["c1"][1] # <<>> /\ added["c1"][2] # <<>>
  /\ given["c1"][1].arr # given["c1"][2].arr
  /\ given["c1"][1].arr # crec["c1"].arr

\* C27: an attribute is stored in the inserted row under a key that carries
\* the groups of the Persister that handled it: two rows inserted by
\* Persisters with different group sequences have no stored key in common
C27_GroupLineageStored ==
  \A k1, k2 \in DOMAIN rows :
    ( /\ RowInserted(k1) /\ RowInserted(k2)
      /\ GroupsOf(objs[rows[k1].obj]) # GroupsOf(objs[rows[k2].obj]) )
    => DOMAIN rows[k1].attrs \cap DOMAIN rows[k2].attrs = {}

\* C28: the cache holds, for a name, the content last fetched from the object
\* store or inserted for it, and a GetFile served from the cache returns the
\* content the preceding fetch or insert of that name carried
C28_CacheCoherence ==
  /\ \A n \in FileNames : cache[n].has => cache[n] = lastFor[n]
  /\ \A i, j \in DOMAIN fcalls :
       ( /\ i < j
         /\ fcalls[i].name = fcalls[j].name
         /\ fcalls[i].ok /\ fcalls[i].from # "cache"
         /\ fcalls[j].ok /\ fcalls[j].from = "cache"
         /\ \A k \in (i + 1)..(j - 1) :
              fcalls[k].name = fcalls[i].name => fcalls[k].from = "cache" )
       => fcalls[j].data = fcalls[i].data

\* C29: a CreatePost call that reported success created a Post node with the
\* returned postID that belongs to a Thread node whose threadID is the
\* argument of the call
C29_SuccessMeansLinked ==
  \A j \in DOMAIN calls :
    (calls[j].op = "CreatePost" /\ calls[j].ok) =>
      \E p \in DOMAIN posts :
        /\ posts[p].postID = calls[j].res
        /\ threads[posts[p].thread].threadID = calls[j].arg

\* C30: the shutdown channel is closed at most once, and only after the
\* callback (server.Shutdown) has returned, with or without an error; when
\* ListenAndServe ended with ErrServerClosed, Start returns only after that
\* close; when it ended with another error, Start can return at once,
\* whether a signal has arrived or not
C30_GracefulShutdownOrder ==
  /\ closes <= 1
  /\ closes = 1 => sdErr # "none"
  /\ (startPc = "returned" /\ lsErr = "closed") => (closes = 1 /\ sdErr # "none")
  /\ startPc = "returned" => lsErr \in {"closed", "other"}
  /\ (startPc = "ended" /\ lsErr = "other") => ENABLED StartBranch
C30_Witness ==
  /\ startPc = "returned" /\ lsErr = "closed"
  /\ sdErr = "ctx" /\ closes = 1 /\ conns > 0

====
